---- MODULE Spec2Model ----
(***************************************************************************)
(* Model of the validation engine of src/src/extension.ts: the schema      *)
(* resolver (resolveSchemaNode, resolvePointer, mergeSchemas) and the      *)
(* tree matcher (collectDiagnostics, visitNodeForDiagnostics and their     *)
(* helpers).                                                               *)
(*                                                                         *)
(* Encoding of JavaScript values.                                          *)
(*  - A JavaScript object is a TLA+ record whose DOMAIN is the set of the  *)
(*    object's own keys: a schema node that has no `type` is a record      *)
(*    without the field type.  {} is the record with the empty domain.     *)
(*  - `undefined` is the record Undefined; a thrown RangeError (call stack *)
(*    exhausted) is the record RangeError.                                 *)
(*  - SchemaNode.type (string | string[]) is held as toTypeArray leaves    *)
(*    it: a sequence of type names.  "string" and ["string"] are both      *)
(*    <<"string">>; [] is <<>>.                                            *)
(*  - SchemaNode.items (SchemaNode | SchemaNode[]) is tagged, because the  *)
(*    code asks Array.isArray: [one |-> node] or [list |-> <<node, ...>>]. *)
(*  - SchemaNode.additionalProperties (boolean | SchemaNode) is tagged:    *)
(*    [bool |-> b] or [node |-> n].                                        *)
(*  - SchemaNode.$ref is the field ref.  The reference string is held by   *)
(*    what the code reads of it: whether it starts with "#", whether it    *)
(*    starts with "#/", and the unescaped segments that follow "#/".       *)
(*  - A number of the document is held in tenths (15 is 1.5), so that      *)
(*    Number.isInteger can be false.                                       *)
(***************************************************************************)
EXTENDS Integers, Sequences, FiniteSets, TLC

VARIABLES
    schema,       \* the loaded root schema (loadSchema's result)
    text,         \* the document's JSON value, as written in its text
    config,       \* ExtensionConfig: [showUnknownProperties |-> BOOLEAN]
    pc,           \* "loaded", "resolved", "collected" or "threw"
    target,       \* the schema node last handed to resolveSchemaNode
    resolved,     \* what resolveSchemaNode returned for target
    diagnostics,  \* the sequence collectDiagnostics returned; in the passes'
                  \* specification, the document's entry of the diagnostic
                  \* collection (<<>> when it has none)
    open,         \* the document is open in the editor
    schemaCache,  \* schemaCache holds the schema at the file's current mtime
    passes        \* the calls of updateDiagnosticsForDocument in flight, in
                  \* the order they started: [at |-> "stat" or "readFile",
                  \* text |-> the text the call read at line 401]

vars == <<schema, text, config, pc, target, resolved, diagnostics,
          open, schemaCache, passes>>

----------------------------------------------------------------------------
(* Bounds of the model. *)

\* Frames resolveSchemaNode may stack before the engine throws RangeError.
MaxStack == 12

\* Longest allOf / oneOf / anyOf list of the generated schemas.
MaxBranches == 2

\* Longest array of the generated documents.
MaxElems == 3

\* Longest `items` sequence of the generated schemas.
MaxItems == 2

\* The most calls of updateDiagnosticsForDocument in flight at once.
MaxPasses == 3

----------------------------------------------------------------------------
(* JavaScript values. *)

Undefined == [undefined |-> TRUE]

RangeError == [rangeError |-> TRUE]

EmptyObject == [k \in {} |-> TRUE]

Has(obj, key) == key \in DOMAIN obj

IsUndefined(v) == Has(v, "undefined")

IsRangeError(v) == Has(v, "rangeError")

\* `.filter(Boolean)` keeps exactly the entries that are schema nodes.
IsNode(v) == ~IsUndefined(v) /\ ~IsRangeError(v)

\* obj with obj[key] = v assigned.
Assign(obj, key, v) ==
    [k \in DOMAIN obj \cup {key} |-> IF k = key THEN v ELSE obj[k]]

\* { ...a, ...b }
Spread(a, b) ==
    [k \in DOMAIN a \cup DOMAIN b |-> IF k \in DOMAIN b THEN b[k] ELSE a[k]]

\* Array.from(new Set(seq)): the first occurrence of each element, in order.
RECURSIVE Dedupe(_)
Dedupe(seq) ==
    IF seq = <<>> THEN <<>>
    ELSE LET init == Dedupe(SubSeq(seq, 1, Len(seq) - 1))
             last == seq[Len(seq)]
         IN  IF \E i \in 1..Len(init) : init[i] = last
             THEN init
             ELSE Append(init, last)

Range(seq) == {seq[i] : i \in 1..Len(seq)}

----------------------------------------------------------------------------
(* The schema resolver. *)

\* resolvePointer: "#/a/b" walks rootSchema by successive key lookup.
RECURSIVE WalkPointer(_, _, _)
WalkPointer(current, parts, i) ==
    IF i > Len(parts) THEN current
    ELSE IF ~Has(current, parts[i]) THEN Undefined
    ELSE WalkPointer(current[parts[i]], parts, i + 1)

ResolvePointer(rootSchema, ref) ==
    IF ~ref.startsWithHashSlash THEN Undefined
    ELSE WalkPointer(rootSchema, ref.parts, 1)

\* mergeSchemas' loop body with two slips: a type already set is kept, and
\* required is overwritten instead of united.
MergeOneFirstTypeWins(merged, s) ==
    LET m1 == IF Has(s, "type") /\ ~Has(merged, "type")
              THEN Assign(merged, "type", s.type) ELSE merged
        m2 == IF Has(s, "properties")
              THEN Assign(m1, "properties",
                          Spread(IF Has(m1, "properties") THEN m1.properties
                                 ELSE EmptyObject,
                                 s.properties))
              ELSE m1
        m3 == IF Has(s, "required") THEN Assign(m2, "required", s.required) ELSE m2
        m4 == IF Has(s, "items") THEN Assign(m3, "items", s.items) ELSE m3
        m5 == IF Has(s, "additionalProperties")
              THEN Assign(m4, "additionalProperties", s.additionalProperties)
              ELSE m4
    IN  m5

\* One iteration of mergeSchemas' loop: schema folded into merged.
MergeOne(merged, s) ==
    LET m1 == IF Has(s, "type") THEN Assign(merged, "type", s.type) ELSE merged
        m2 == IF Has(s, "properties")
              THEN Assign(m1, "properties",
                          Spread(IF Has(m1, "properties") THEN m1.properties
                                 ELSE EmptyObject,
                                 s.properties))
              ELSE m1
        m3 == IF Has(s, "required")
              THEN Assign(m2, "required",
                          Dedupe((IF Has(m2, "required") THEN m2.required
                                  ELSE <<>>) \o s.required))
              ELSE m2
        m4 == IF Has(s, "items") THEN Assign(m3, "items", s.items) ELSE m3
        m5 == IF Has(s, "additionalProperties")
              THEN Assign(m4, "additionalProperties", s.additionalProperties)
              ELSE m4
    IN  m5

RECURSIVE MergeLoop(_, _, _)
MergeLoop(merged, schemas, i) ==
    IF i > Len(schemas) THEN merged
    ELSE MergeLoop(MergeOne(merged, schemas[i]), schemas, i + 1)

MergeSchemas(schemas) ==
    IF Len(schemas) = 0 THEN Undefined
    ELSE MergeLoop(EmptyObject, schemas, 1)

\* The cycle guard answering yes for every target.
AlwaysSeen(seen, ref) == TRUE

\* The cycle guard left out: no target counts as seen.
NoSeenGuard(seen, ref) == FALSE

\* seen.has(resolved).  The code keeps in seen, by object identity, the
\* nodes resolvePointer has returned on this chain.  The root schema is a
\* tree (JSON.parse output), so two resolved pointers name the same object
\* exactly when their segment sequences are equal: seen holds those sequences.
SeenHas(seen, ref) == ref.parts \in seen

\* The last entry taken in place of entry 0.
LastEntry(list) == list[Len(list)]

\* schema.oneOf[0], schema.anyOf[0]
FirstEntry(list) == list[1]

\* resolveSchemaNode.  depth counts the frames of resolveSchemaNode on the
\* stack; the engine throws RangeError when they exceed MaxStack.
RECURSIVE ResolveSchemaNode(_, _, _, _)
ResolveSchemaNode(s, rootSchema, seen, depth) ==
    IF depth > MaxStack THEN RangeError
    ELSE IF IsUndefined(s) THEN Undefined
    ELSE IF Has(s, "ref") THEN
        IF ~s.ref.startsWithHash THEN Undefined
        ELSE LET r == ResolvePointer(rootSchema, s.ref)
             IN  IF IsUndefined(r) \/ SeenHas(seen, s.ref) THEN r
                 ELSE ResolveSchemaNode(r, rootSchema,
                                        seen \cup {s.ref.parts}, depth + 1)
    ELSE IF Has(s, "allOf") /\ Len(s.allOf) > 0 THEN
        LET entries == [i \in 1..Len(s.allOf) |->
                          ResolveSchemaNode(s.allOf[i], rootSchema, {}, depth + 1)]
        IN  IF \E i \in 1..Len(entries) : IsRangeError(entries[i])
            THEN RangeError
            ELSE MergeSchemas(SelectSeq(entries, IsNode))
    ELSE IF Has(s, "oneOf") /\ Len(s.oneOf) > 0 THEN
        ResolveSchemaNode(FirstEntry(s.oneOf), rootSchema, seen, depth + 1)
    ELSE IF Has(s, "anyOf") /\ Len(s.anyOf) > 0 THEN
        ResolveSchemaNode(FirstEntry(s.anyOf), rootSchema, seen, depth + 1)
    ELSE s

----------------------------------------------------------------------------
(* The document: parseTree of jsonc-parser, on text without white space.   *)
(* A JSON value of the text is [kind, value | elems | members]; a member   *)
(* is [key, val], or [key] alone while its value is still being typed.     *)

NumberLength(tenths) == IF tenths % 10 = 0 THEN 1 ELSE 3

RECURSIVE TextLength(_)
RECURSIVE ListLength(_, _)
MemberLength(m) ==
    Len(m.key) + 2 + (IF Has(m, "val") THEN 1 + TextLength(m.val) ELSE 0)

\* Length of the comma-separated list of array elements or object members.
ListLength(list, isMembers) ==
    IF Len(list) = 0 THEN 0
    ELSE LET init == ListLength(SubSeq(list, 1, Len(list) - 1), isMembers)
             last == list[Len(list)]
         IN  (IF Len(list) > 1 THEN init + 1 ELSE 0)
             + (IF isMembers THEN MemberLength(last) ELSE TextLength(last))

TextLength(v) ==
    CASE v.kind = "string"  -> Len(v.value) + 2
      [] v.kind = "number"  -> NumberLength(v.value)
      [] v.kind = "boolean" -> IF v.value THEN 4 ELSE 5
      [] v.kind = "null"    -> 4
      [] v.kind = "array"   -> 2 + ListLength(v.elems, FALSE)
      [] v.kind = "object"  -> 2 + ListLength(v.members, TRUE)

RECURSIVE ParseValue(_, _)
RECURSIVE ParseList(_, _, _, _)

\* The property node of member m at offset: key node, then value node.
ParseMember(m, offset) ==
    LET keyNode == [type |-> "string", offset |-> offset,
                    length |-> Len(m.key) + 2, value |-> m.key]
    IN  [type |-> "property", offset |-> offset, length |-> MemberLength(m),
         children |-> IF Has(m, "val")
                      THEN <<keyNode, ParseValue(m.val, offset + Len(m.key) + 3)>>
                      ELSE <<keyNode>>]

\* The child nodes of list[i..], the first of them at offset.
ParseList(list, i, offset, isMembers) ==
    IF i > Len(list) THEN <<>>
    ELSE LET child == IF isMembers THEN ParseMember(list[i], offset)
                      ELSE ParseValue(list[i], offset)
         IN  <<child>> \o ParseList(list, i + 1, offset + child.length + 1, isMembers)

ParseValue(v, offset) ==
    CASE v.kind \in {"string", "number", "boolean"} ->
            [type |-> v.kind, offset |-> offset, length |-> TextLength(v),
             value |-> v.value]
      [] v.kind = "null" ->
            [type |-> "null", offset |-> offset, length |-> TextLength(v)]
      [] v.kind = "array" ->
            [type |-> "array", offset |-> offset, length |-> TextLength(v),
             children |-> ParseList(v.elems, 1, offset + 1, FALSE)]
      [] v.kind = "object" ->
            [type |-> "object", offset |-> offset, length |-> TextLength(v),
             children |-> ParseList(v.members, 1, offset + 1, TRUE)]

ParseTree(t) == ParseValue(t, 0)

----------------------------------------------------------------------------
(* The tree matcher. *)

\* Keys every object inherits from Object.prototype: obj[key] is a function
\* or an object for them although obj has no such own key.
ObjectPrototypeKeys ==
    {"constructor", "toString", "valueOf", "hasOwnProperty", "__proto__"}

\* What obj[key] yields for an inherited key: truthy, with no schema field.
InheritedMember == [native |-> TRUE]

\* obj[key]
Lookup(obj, key) ==
    IF Has(obj, key) THEN obj[key]
    ELSE IF key \in ObjectPrototypeKeys THEN InheritedMember
    ELSE Undefined

GetPropertySchemaInfo(s, key) ==
    IF Has(s, "properties") /\ ~IsUndefined(Lookup(s.properties, key))
    THEN [schema |-> Lookup(s.properties, key), isKnown |-> TRUE]
    ELSE IF ~Has(s, "additionalProperties")
            \/ (Has(s.additionalProperties, "bool") /\ s.additionalProperties.bool)
    THEN [schema |-> Undefined, isKnown |-> FALSE]
    ELSE IF Has(s.additionalProperties, "node")
    THEN [schema |-> s.additionalProperties.node, isKnown |-> TRUE]
    ELSE [schema |-> Undefined, isKnown |-> FALSE]

\* resolveArrayItemSchema without the fallback to the last entry.
ResolveArrayItemSchemaNoFallback(s, index) ==
    IF ~Has(s, "items") THEN Undefined
    ELSE IF Has(s.items, "list")
    THEN IF index < Len(s.items.list) THEN s.items.list[index + 1]
         ELSE Undefined
    ELSE s.items.one

\* items[index] ?? items[items.length - 1]; index counts from 0.
ResolveArrayItemSchema(s, index) ==
    IF ~Has(s, "items") THEN Undefined
    ELSE IF Has(s.items, "list")
    THEN IF index < Len(s.items.list) THEN s.items.list[index + 1]
         ELSE IF Len(s.items.list) > 0 THEN s.items.list[Len(s.items.list)]
         ELSE Undefined
    ELSE s.items.one

ToTypeArray(s) == IF Has(s, "type") THEN s.type ELSE <<>>

Includes(seq, x) == \E i \in 1..Len(seq) : seq[i] = x

IsObjectSchema(s) == Includes(ToTypeArray(s), "object") \/ Has(s, "properties")

IsArraySchema(s) == Includes(ToTypeArray(s), "array") \/ Has(s, "items")

GetSchemaTypeCandidates(s) ==
    IF Len(ToTypeArray(s)) # 0 THEN ToTypeArray(s)
    ELSE IF Has(s, "properties") \/ Has(s, "required") THEN <<"object">>
    ELSE IF Has(s, "items") THEN <<"array">>
    ELSE <<>>

\* Number.isInteger(node.value), the value being held in tenths.
IsInteger(tenths) == tenths % 10 = 0

\* isNodeTypeCompatible with the test of the empty expected set inverted.
IsNodeTypeCompatibleEmptyFails(node, s) ==
    LET expected == GetSchemaTypeCandidates(s)
    IN  IF Len(expected) = 0 THEN FALSE
        ELSE CASE node.type = "string"  -> Includes(expected, "string")
               [] node.type = "number"  ->
                    IF Includes(expected, "number") THEN TRUE
                    ELSE IF Includes(expected, "integer") THEN IsInteger(node.value)
                    ELSE FALSE
               [] node.type = "boolean" -> Includes(expected, "boolean")
               [] node.type = "null"    -> Includes(expected, "null")
               [] node.type = "object"  -> Includes(expected, "object")
               [] node.type = "array"   -> Includes(expected, "array")
               [] OTHER -> TRUE

IsNodeTypeCompatible(node, s) ==
    LET expected == GetSchemaTypeCandidates(s)
    IN  IF Len(expected) = 0 THEN TRUE
        ELSE CASE node.type = "string"  -> Includes(expected, "string")
               [] node.type = "number"  ->
                    IF Includes(expected, "number") THEN TRUE
                    ELSE IF Includes(expected, "integer") THEN IsInteger(node.value)
                    ELSE FALSE
               [] node.type = "boolean" -> Includes(expected, "boolean")
               [] node.type = "null"    -> Includes(expected, "null")
               [] node.type = "object"  -> Includes(expected, "object")
               [] node.type = "array"   -> Includes(expected, "array")
               [] OTHER -> TRUE

\* toRange: the text is one line, so a position is its offset.
ToRange(start, end) == [start |-> start, end |-> end]

\* Array.prototype.join
RECURSIVE Join(_, _)
Join(seq, separator) ==
    IF Len(seq) = 0 THEN ""
    ELSE IF Len(seq) = 1 THEN seq[1]
    ELSE Join(SubSeq(seq, 1, Len(seq) - 1), separator) \o separator \o seq[Len(seq)]

CreateUnknownPropertyDiagnostic(keyNode, key) ==
    [range |-> ToRange(keyNode.offset, keyNode.offset + keyNode.length),
     message |-> "Unknown property \"" \o key \o "\" (not in schema).",
     severity |-> "Warning"]

CreateMissingRequiredDiagnostic(objectNode, key) ==
    [range |-> ToRange(objectNode.offset, objectNode.offset + 1),
     message |-> "Missing required property \"" \o key \o "\".",
     severity |-> "Warning"]

\* createTypeMismatchDiagnostic joining the names by ", ".
CreateTypeMismatchDiagnosticCommas(node, s) ==
    LET expected == GetSchemaTypeCandidates(s)
        expectedLabel == IF Len(expected) > 0 THEN Join(expected, ", ")
                         ELSE "unknown"
    IN  [range |-> ToRange(node.offset, node.offset + node.length),
         message |-> "Type mismatch: expected " \o expectedLabel \o ".",
         severity |-> "Warning"]

CreateTypeMismatchDiagnostic(node, s) ==
    LET expected == GetSchemaTypeCandidates(s)
        expectedLabel == IF Len(expected) > 0 THEN Join(expected, " | ")
                         ELSE "unknown"
    IN  [range |-> ToRange(node.offset, node.offset + node.length),
         message |-> "Type mismatch: expected " \o expectedLabel \o ".",
         severity |-> "Warning"]

\* The reserved key not recognised.
NeverSchemaKey(key) == FALSE

\* key === '$schema' (line 485), requiredKey === '$schema' (line 500)
IsSchemaKey(key) == key = "$schema"

\* The loop over requiredSet (lines 499-506), from its i-th name on.
RECURSIVE MissingRequired(_, _, _, _)
MissingRequired(node, requiredSet, presentKeys, i) ==
    IF i > Len(requiredSet) THEN <<>>
    ELSE (IF ~IsSchemaKey(requiredSet[i]) /\ requiredSet[i] \notin presentKeys
          THEN <<CreateMissingRequiredDiagnostic(node, requiredSet[i])>>
          ELSE <<>>)
         \o MissingRequired(node, requiredSet, presentKeys, i + 1)

\* visitNodeForDiagnostics.  sink is [diagnostics, threw]: the array the
\* diagnostics are pushed to, and whether a RangeError is propagating (then
\* nothing more runs).  The frames of one resolveSchemaNode chain are counted
\* from 0 at each call made here.
RECURSIVE VisitNodeForDiagnostics(_, _, _, _, _)
RECURSIVE VisitProperties(_, _, _, _, _, _, _)
RECURSIVE VisitElements(_, _, _, _, _, _)

VisitNodeForDiagnostics(node, s, rootSchema, cfg, sink) ==
    IF sink.threw \/ IsUndefined(s) THEN sink
    ELSE LET resolvedSchema == ResolveSchemaNode(s, rootSchema, {}, 0)
         IN  IF IsRangeError(resolvedSchema)
             THEN [sink EXCEPT !.threw = TRUE]
             ELSE IF IsUndefined(resolvedSchema) THEN sink
             ELSE IF ~IsNodeTypeCompatible(node, resolvedSchema)
             THEN [sink EXCEPT !.diagnostics =
                      Append(@, CreateTypeMismatchDiagnostic(node, resolvedSchema))]
             ELSE IF node.type = "object"
             THEN IF ~IsObjectSchema(resolvedSchema) THEN sink
                  ELSE VisitProperties(node, resolvedSchema, rootSchema, cfg,
                                       sink, 1, {})
             ELSE IF node.type = "array"
             THEN IF ~IsArraySchema(resolvedSchema) THEN sink
                  ELSE VisitElements(node, resolvedSchema, rootSchema, cfg, sink, 0)
             ELSE sink

\* The loop over node.children (lines 474-497) from its i-th child on, then
\* the loop over requiredSet.
VisitProperties(node, resolvedSchema, rootSchema, cfg, sink, i, presentKeys) ==
    IF sink.threw THEN sink
    ELSE IF i > Len(node.children)
    THEN LET requiredSet == Dedupe(IF Has(resolvedSchema, "required")
                                   THEN resolvedSchema.required ELSE <<>>)
         IN  [sink EXCEPT !.diagnostics =
                 @ \o MissingRequired(node, requiredSet, presentKeys, 1)]
    ELSE LET propertyNode == node.children[i]
         IN  IF propertyNode.type # "property" \/ Len(propertyNode.children) < 2
             THEN VisitProperties(node, resolvedSchema, rootSchema, cfg, sink,
                                  i + 1, presentKeys)
             ELSE LET keyNode == propertyNode.children[1]
                      valueNode == propertyNode.children[2]
                      key == keyNode.value
                      info == GetPropertySchemaInfo(resolvedSchema, key)
                  IN  IF key = "" \/ IsSchemaKey(key)
                      THEN VisitProperties(node, resolvedSchema, rootSchema, cfg,
                                           sink, i + 1, presentKeys)
                      ELSE VisitProperties(node, resolvedSchema, rootSchema, cfg,
                              IF ~IsUndefined(info.schema)
                              THEN VisitNodeForDiagnostics(valueNode, info.schema,
                                                           rootSchema, cfg, sink)
                              ELSE IF cfg.showUnknownProperties /\ ~info.isKnown
                              THEN [sink EXCEPT !.diagnostics =
                                      Append(@, CreateUnknownPropertyDiagnostic(keyNode, key))]
                              ELSE sink,
                              i + 1, presentKeys \cup {key})

\* The loop over node.children (lines 517-523) from index on.
VisitElements(node, resolvedSchema, rootSchema, cfg, sink, index) ==
    IF sink.threw \/ index >= Len(node.children) THEN sink
    ELSE LET itemSchema == ResolveArrayItemSchema(resolvedSchema, index)
         IN  VisitElements(node, resolvedSchema, rootSchema, cfg,
                 IF ~IsUndefined(itemSchema)
                 THEN VisitNodeForDiagnostics(node.children[index + 1], itemSchema,
                                              rootSchema, cfg, sink)
                 ELSE sink,
                 index + 1)

\* collectDiagnostics: [diagnostics, threw].
CollectDiagnostics(rootNode, rootSchema, cfg) ==
    LET resolvedRoot == ResolveSchemaNode(rootSchema, rootSchema, {}, 0)
        empty == [diagnostics |-> <<>>, threw |-> FALSE]
    IN  IF IsRangeError(resolvedRoot) THEN [empty EXCEPT !.threw = TRUE]
        ELSE IF IsUndefined(resolvedRoot) THEN empty
        ELSE VisitNodeForDiagnostics(rootNode, resolvedRoot, rootSchema, cfg, empty)

----------------------------------------------------------------------------
(* The inputs: root schemas, document texts and configurations. *)

\* The sequences over S of length at most n.
SeqsUpTo(S, n) == UNION {[1..k -> S] : k \in 0..n}

\* The objects that hold field with one of values, or do not hold it.
Optional(field, values) ==
    {EmptyObject} \cup {Assign(EmptyObject, field, v) : v \in values}

LocalRef(parts) ==
    [startsWithHash |-> TRUE, startsWithHashSlash |-> TRUE, parts |-> parts]

\* "#": starts with "#" and not with "#/".
BareHashRef ==
    [startsWithHash |-> TRUE, startsWithHashSlash |-> FALSE, parts |-> <<>>]

\* "https://example.com/schema.json"
RemoteRef ==
    [startsWithHash |-> FALSE, startsWithHashSlash |-> FALSE, parts |-> <<>>]

RefX == [ref |-> LocalRef(<<"definitions", "x">>)]

RefY == [ref |-> LocalRef(<<"definitions", "y">>)]

TypeString == [type |-> <<"string">>]

TypeNumber == [type |-> <<"number">>]

TypeInteger == [type |-> <<"integer">>]

\* The `definitions` of the generated root schemas.
DefinitionsChoices ==
    { [x |-> [type |-> <<"integer">>, required |-> <<"a">>]],
      [x |-> RefX],
      [x |-> [allOf |-> <<RefX>>]],
      [x |-> [oneOf |-> <<RefX, TypeString>>]],
      [x |-> RefY, y |-> RefX],
      [x |-> RefY, y |-> [anyOf |-> <<TypeNumber, RefX>>]],
      [x |-> [anyOf |-> <<RefY>>], y |-> [allOf |-> <<TypeString, RefX>>]] }

\* The entries of the generated allOf / oneOf / anyOf lists.
BranchSchemas ==
    { TypeString,
      TypeNumber,
      [type |-> <<"integer">>, required |-> <<"a">>],
      [required |-> <<"b", "a">>, additionalProperties |-> [bool |-> FALSE],
       items |-> [one |-> TypeString]],
      [properties |-> [a |-> TypeNumber],
       additionalProperties |-> [node |-> TypeString],
       items |-> [list |-> <<>>]],
      RefX,
      [ref |-> LocalRef(<<"definitions", "missing">>)],
      [ref |-> RemoteRef] }

\* Root schemas made of one composition over `definitions`.
CompositionSchemas ==
    { Spread(Assign(EmptyObject, keyword, branches), [definitions |-> defs]) :
        keyword \in {"allOf", "oneOf", "anyOf"},
        branches \in SeqsUpTo(BranchSchemas, MaxBranches),
        defs \in DefinitionsChoices }

\* Root schemas that hold several of type / $ref-less compositions at once.
PrioritySchemas ==
    { Spread(Spread(Spread(t, a), o), y) :
        t \in Optional("type", {<<"number">>}),
        a \in Optional("allOf", {<<>>}),
        o \in Optional("oneOf", {<<>>, <<TypeString>>, <<TypeString, TypeNumber>>,
                                 <<[ref |-> BareHashRef], TypeNumber>>}),
        y \in Optional("anyOf", {<<>>, <<TypeInteger>>, <<TypeNumber, TypeString>>}) }

\* Root schemas that are a $ref into `definitions`.
ReferenceSchemas ==
    { Spread(r, [definitions |-> defs]) :
        r \in {RefX, RefY, [ref |-> BareHashRef], [ref |-> RemoteRef]},
        defs \in DefinitionsChoices }

NumberText(tenths) == [kind |-> "number", value |-> tenths]

StringText(value) == [kind |-> "string", value |-> value]

ObjectText(members) == [kind |-> "object", members |-> members]

ArrayText(elems) == [kind |-> "array", elems |-> elems]

Member(key, val) == [key |-> key, val |-> val]

\* Documents the resolver's schemas are matched against.
ScalarTexts ==
    { NumberText(10), StringText("x"), ObjectText(<<Member("a", NumberText(15))>>) }

\* Root schemas that are a bare type, of one or several names.
TypedSchemas ==
    { [type |-> names] :
        names \in {<<"string">>, <<"integer">>, <<"object">>, <<"string", "null">>,
                   <<"boolean", "array", "integer">>, <<>>} }

SchemaKey == "$schema"

\* Root schemas that describe an object.
ObjectSchemas ==
    { Spread(Spread(Spread(t, p), r), ap) :
        t \in Optional("type", {<<"object">>}),
        p \in Optional("properties",
                       { [a |-> TypeString],
                         Assign([a |-> TypeString], SchemaKey, TypeString),
                         [a |-> [type |-> <<"object">>, required |-> <<"b">>,
                                 additionalProperties |-> [bool |-> FALSE]]] }),
        r \in Optional("required", {<<"a", "b">>, <<SchemaKey, "b", "b">>}),
        ap \in Optional("additionalProperties",
                        {[bool |-> TRUE], [bool |-> FALSE], [node |-> TypeNumber]}) }

\* The members the generated document objects are made of.
MemberChoices ==
    << Member("a", StringText("Ada")),
       Member("a", ObjectText(<<Member(SchemaKey, NumberText(10)),
                                Member("c", [kind |-> "null"])>>)),
       Member("b", StringText("M")),
       Member(SchemaKey, NumberText(10)),
       Member("constructor", NumberText(10)) >>

\* Every document object that holds some of MemberChoices, in that order;
\* and two objects still being typed: a member with no value, an empty key.
ObjectTexts ==
    { ObjectText(SelectSeq(MemberChoices, LAMBDA m : m \in chosen)) :
        chosen \in SUBSET Range(MemberChoices) }
    \cup { ObjectText(<<[key |-> "b"], Member("a", StringText("Ada"))>>),
           ObjectText(<<Member("", NumberText(10))>>) }

\* Root schemas that describe an array.
ItemSchemas == {TypeInteger, TypeString, EmptyObject}

ArraySchemas ==
    { Spread(t, [items |-> items]) :
        t \in Optional("type", {<<"array">>}),
        items \in {[one |-> item] : item \in ItemSchemas}
                  \cup {[list |-> list] : list \in SeqsUpTo(ItemSchemas, MaxItems)} }
    \cup { [type |-> <<"array">>],
           [items |-> [one |-> [type |-> <<"array">>, items |-> [one |-> TypeInteger]]]] }

ElementTexts == {NumberText(10), NumberText(15), StringText("x")}

ArrayTexts ==
    { ArrayText(elems) : elems \in SeqsUpTo(ElementTexts, MaxElems) }
    \cup { ArrayText(<<ArrayText(<<NumberText(10), StringText("x")>>), NumberText(10)>>) }

\* The end-to-end examples of the specification.
ExampleSchemas ==
    { [type |-> <<"object">>, properties |-> [name |-> TypeString],
       required |-> <<"name">>, additionalProperties |-> [bool |-> FALSE]],
      [type |-> <<"array">>, items |-> [one |-> TypeInteger]] }

ExampleTexts ==
    { ObjectText(<<Member("name", StringText("Ada")), Member("size", StringText("M"))>>),
      ArrayText(<<NumberText(10), NumberText(20), StringText("x")>>) }

InitResolver ==
    /\ schema \in CompositionSchemas \cup PrioritySchemas \cup ReferenceSchemas
                  \cup TypedSchemas
    /\ text \in ScalarTexts
    /\ config = [showUnknownProperties |-> TRUE]

InitObjects ==
    /\ schema \in ObjectSchemas \cup ExampleSchemas
    /\ text \in ObjectTexts \cup ExampleTexts
    /\ config \in [showUnknownProperties : BOOLEAN]

InitArrays ==
    /\ schema \in ArraySchemas
    /\ text \in ArrayTexts
    /\ config = [showUnknownProperties |-> TRUE]

Init ==
    /\ InitResolver \/ InitObjects \/ InitArrays
    /\ pc = "loaded"
    /\ target = Undefined
    /\ resolved = Undefined
    /\ diagnostics = <<>>
    /\ open = FALSE
    /\ schemaCache = FALSE
    /\ passes = <<>>

----------------------------------------------------------------------------
(* The operations. *)

\* The schema nodes of the tree s: s and the nodes below it.
RECURSIVE SchemaNodes(_)
SchemaNodes(s) ==
    LET under(field) == IF Has(s, field)
                        THEN UNION {SchemaNodes(s[field][k]) : k \in DOMAIN s[field]}
                        ELSE {}
    IN  {s} \cup under("properties") \cup under("definitions")
            \cup under("allOf") \cup under("oneOf") \cup under("anyOf")
            \cup (IF Has(s, "items")
                  THEN IF Has(s.items, "one") THEN SchemaNodes(s.items.one)
                       ELSE UNION {SchemaNodes(s.items.list[k]) :
                                     k \in DOMAIN s.items.list}
                  ELSE {})
            \cup (IF Has(s, "additionalProperties")
                     /\ Has(s.additionalProperties, "node")
                  THEN SchemaNodes(s.additionalProperties.node)
                  ELSE {})

\* resolveSchemaNode(node, rootSchema) for a node of the root schema.
Resolve ==
    /\ pc = "loaded"
    /\ \E node \in SchemaNodes(schema) :
          /\ target' = node
          /\ resolved' = ResolveSchemaNode(node, schema, {}, 0)
    /\ pc' = IF IsRangeError(resolved') THEN "threw" ELSE "resolved"
    /\ UNCHANGED <<schema, text, config, diagnostics, open, schemaCache, passes>>

\* updateDiagnosticsForDocument from parseTree on (lines 401-421), the
\* schema being loaded: parse the text, collect the diagnostics.  target and
\* resolved record collectDiagnostics' own call, resolveSchemaNode(schema,
\* schema) (line 435).
Collect ==
    /\ pc = "loaded"
    /\ LET results == CollectDiagnostics(ParseTree(text), schema, config)
       IN  /\ diagnostics' = results.diagnostics
           /\ pc' = IF results.threw THEN "threw" ELSE "collected"
    /\ target' = schema
    /\ resolved' = ResolveSchemaNode(schema, schema, {}, 0)
    /\ UNCHANGED <<schema, text, config, open, schemaCache, passes>>

Next == Resolve \/ Collect

Spec == Init /\ [][Next]_vars

----------------------------------------------------------------------------
(* The validation passes of one document.                                  *)
(*                                                                         *)
(* The extension host runs one callback at a time.  A call of              *)
(* updateDiagnosticsForDocument runs from its start to loadSchema's        *)
(* `await stat` (line 160) before any other event is handled: the await of *)
(* line 408 is on a function that awaits nothing, so it resumes in a       *)
(* microtask.  It then resumes when stat returns and, on a cache miss,     *)
(* again when readFile returns; the order in which the file system answers *)
(* the calls in flight is not fixed by the code.  The document is a JSON   *)
(* document with a schema mapping, enableDiagnostics is on, and the schema *)
(* file exists and is not modified.                                        *)

\* The texts the document takes: no diagnostics, a missing required
\* property, an unknown property.
DocumentTexts ==
    { ObjectText(<<Member("name", StringText("Ada"))>>),
      ObjectText(<<>>),
      ObjectText(<<Member("name", StringText("Ada")), Member("size", StringText("M"))>>) }

InitPasses ==
    /\ schema \in ExampleSchemas
    /\ text \in DocumentTexts
    /\ config = [showUnknownProperties |-> TRUE]
    /\ pc = "loaded"
    /\ target = Undefined
    /\ resolved = Undefined
    /\ diagnostics = <<>>
    /\ open = FALSE
    /\ schemaCache = FALSE
    /\ passes = <<>>

\* list without its entry i.
RemoveAt(list, i) == SubSeq(list, 1, i - 1) \o SubSeq(list, i + 1, Len(list))

\* updateDiagnosticsForDocument from its start to loadSchema's `await stat`
\* (lines 390-414, 157-160): the call reads the text (line 401) and waits.
UpdateDiagnosticsForDocument(snapshot) ==
    /\ Len(passes) < MaxPasses
    /\ passes' = Append(passes, [at |-> "stat", text |-> snapshot])

\* The end of pass i (lines 415-421): collectDiagnostics on the text the
\* pass read, then diagnostics.set.  A RangeError rejects the promise before
\* line 421.
SetDiagnostics(i) ==
    /\ LET results == CollectDiagnostics(ParseTree(passes[i].text), schema, config)
       IN  diagnostics' = IF results.threw THEN diagnostics ELSE results.diagnostics
    /\ passes' = RemoveAt(passes, i)

\* onDidOpenTextDocument (lines 349-351).
OnDidOpenTextDocument ==
    /\ ~open
    /\ open' = TRUE
    /\ UpdateDiagnosticsForDocument(text)
    /\ UNCHANGED <<schema, text, config, pc, target, resolved, diagnostics, schemaCache>>

\* onDidChangeTextDocument (lines 352-354): the document has its new text.
OnDidChangeTextDocument ==
    /\ open
    /\ \E edited \in DocumentTexts \ {text} :
          /\ text' = edited
          /\ UpdateDiagnosticsForDocument(edited)
    /\ UNCHANGED <<schema, config, pc, target, resolved, diagnostics, open, schemaCache>>

\* onDidSaveTextDocument (lines 355-365); the document is not a cached
\* schema, so schemaCache.delete returns false.
OnDidSaveTextDocument ==
    /\ open
    /\ UpdateDiagnosticsForDocument(text)
    /\ UNCHANGED <<schema, text, config, pc, target, resolved, diagnostics, open, schemaCache>>

\* onDidCloseTextDocument (lines 366-368): diagnostics.delete.
OnDidCloseTextDocument ==
    /\ open
    /\ open' = FALSE
    /\ diagnostics' = <<>>
    /\ UNCHANGED <<schema, text, config, pc, target, resolved, schemaCache, passes>>

\* stat returns to a pass (lines 160-164): on a cache hit loadSchema returns
\* and the pass ends; on a miss the pass waits for readFile (line 166).
StatReturns ==
    /\ \E i \in 1..Len(passes) :
          /\ passes[i].at = "stat"
          /\ IF schemaCache
             THEN SetDiagnostics(i)
             ELSE /\ passes' = [passes EXCEPT ![i].at = "readFile"]
                  /\ UNCHANGED diagnostics
    /\ UNCHANGED <<schema, text, config, pc, target, resolved, open, schemaCache>>

\* readFile returns to a pass (lines 166-170): the schema is cached and the
\* pass ends.
ReadFileReturns ==
    /\ \E i \in 1..Len(passes) :
          /\ passes[i].at = "readFile"
          /\ SetDiagnostics(i)
    /\ schemaCache' = TRUE
    /\ UNCHANGED <<schema, text, config, pc, target, resolved, open>>

NextPasses ==
    \/ OnDidOpenTextDocument
    \/ OnDidChangeTextDocument
    \/ OnDidSaveTextDocument
    \/ OnDidCloseTextDocument
    \/ StatReturns
    \/ ReadFileReturns

SpecPasses == InitPasses /\ [][NextPasses]_vars

----------------------------------------------------------------------------
(* The claims. *)

\* The document tree of the state's text.
root == ParseTree(text)

\* resolveSchemaNode has returned for target (or thrown).
Returned == pc \in {"resolved", "collected", "threw"}

RequiredOf(s) == IF Has(s, "required") THEN Range(s.required) ELSE {}

TypeMismatch(start, end, label) ==
    [range |-> [start |-> start, end |-> end],
     message |-> "Type mismatch: expected " \o label \o ".",
     severity |-> "Warning"]

\* target is a $ref whose pointer resolves to a node equal to target.
SelfReference ==
    /\ Has(target, "ref")
    /\ target.ref.startsWithHashSlash
    /\ ResolvePointer(schema, target.ref) = target

\* C1: resolving a node {"$ref": "#/definitions/x"}, definitions.x of the
\* root schema being that same node, terminates and returns that node: not
\* undefined, and no stack exhaustion.
C1_SelfReferenceReturnsNode ==
    (Returned /\ SelfReference) => (pc # "threw" /\ resolved = target)

C1_Witness ==
    /\ pc = "resolved"
    /\ SelfReference
    /\ target = RefX
    /\ schema.definitions.x = RefX
    /\ resolved = RefX

\* target has no $ref and no non-empty allOf, and keyword names the list
\* resolveSchemaNode is to take entry 0 of.
FirstBranchCase(keyword) ==
    /\ ~Has(target, "ref")
    /\ ~(Has(target, "allOf") /\ Len(target.allOf) > 0)
    /\ Has(target, keyword) /\ Len(target[keyword]) > 0
    /\ keyword = "anyOf" => ~(Has(target, "oneOf") /\ Len(target.oneOf) > 0)

\* C2: a node with no $ref and no non-empty allOf, and with a non-empty
\* oneOf (or, oneOf being absent or empty, a non-empty anyOf), resolves to
\* exactly what entry 0 of that list resolves to (undefined when entry 0
\* does); the later entries change neither the resolved node nor the
\* diagnostics; and oneOf [{type:string},{type:number}] against a document
\* number yields the one diagnostic "Type mismatch: expected string.".
C2_FirstBranchOnly ==
    /\ \A keyword \in {"oneOf", "anyOf"} :
          (Returned /\ FirstBranchCase(keyword)) =>
             LET first == [target EXCEPT ![keyword] = <<target[keyword][1]>>]
             IN  /\ resolved = ResolveSchemaNode(target[keyword][1], schema, {}, 1)
                 /\ resolved = ResolveSchemaNode(first, schema, {}, 0)
                 /\ (pc = "collected" /\ target = schema) =>
                       diagnostics = CollectDiagnostics(root, first, config).diagnostics
    /\ ( /\ pc = "collected"
         /\ schema = [oneOf |-> <<TypeString, TypeNumber>>]
         /\ text = NumberText(10) )
       => diagnostics = <<TypeMismatch(0, 1, "string")>>

C2_Witness ==
    /\ pc = "collected"
    /\ schema = [oneOf |-> <<TypeString, TypeNumber>>]
    /\ text = NumberText(10)
    /\ resolved = TypeString
    /\ Len(diagnostics) = 1

\* The resolved allOf branches of target: those that are nodes.
ResolvedBranches ==
    SelectSeq([i \in 1..Len(target.allOf) |->
                 ResolveSchemaNode(target.allOf[i], schema, {}, 1)], IsNode)

\* obj.field is the field of the last of branches that has it, and is
\* absent when none has it.
LastWins(obj, branches, field) ==
    LET having == {i \in 1..Len(branches) : Has(branches[i], field)}
    IN  IF having = {} THEN ~Has(obj, field)
        ELSE /\ Has(obj, field)
             /\ obj[field] = branches[CHOOSE i \in having :
                                        \A j \in having : j <= i][field]

Orderings(n) == {p \in [1..n -> 1..n] : \A i \in 1..n : \E j \in 1..n : p[j] = i}

\* C3: the node an allOf resolves to has as required the union of the
\* resolved branches' required sets, the same set under every ordering of
\* the branches, and as type, items and additionalProperties those of the
\* last branch that has the field (absent when no branch has it):
\* [{type:string},{type:number}] gives number, the reverse gives string.
C3_AllOfMerge ==
    ( /\ Returned /\ pc # "threw"
      /\ ~Has(target, "ref")
      /\ Has(target, "allOf") /\ Len(target.allOf) > 0
      /\ Len(ResolvedBranches) > 0 )
    => LET branches == ResolvedBranches
       IN  /\ IsNode(resolved)
           /\ RequiredOf(resolved) =
                 UNION {RequiredOf(branches[i]) : i \in 1..Len(branches)}
           /\ Has(resolved, "required") <=>
                 \E i \in 1..Len(branches) : Has(branches[i], "required")
           /\ \A p \in Orderings(Len(branches)) :
                 RequiredOf(MergeSchemas([i \in 1..Len(branches) |-> branches[p[i]]]))
                    = RequiredOf(resolved)
           /\ LastWins(resolved, branches, "type")
           /\ LastWins(resolved, branches, "items")
           /\ LastWins(resolved, branches, "additionalProperties")
           /\ target.allOf = <<TypeString, TypeNumber>> => resolved.type = <<"number">>
           /\ target.allOf = <<TypeNumber, TypeString>> => resolved.type = <<"string">>

C3_Witness ==
    /\ pc = "resolved"
    /\ Has(target, "allOf")
    /\ Len(target.allOf) = 2
    /\ Has(target.allOf[1], "type") /\ Has(target.allOf[1], "required")
    /\ Has(target.allOf[2], "required") /\ ~Has(target.allOf[2], "type")
    /\ RequiredOf(resolved) = {"a", "b"}
    /\ resolved.type = <<"integer">>

Warning(start, end, message) ==
    [range |-> [start |-> start, end |-> end], message |-> message,
     severity |-> "Warning"]

MissingMessage(key) == "Missing required property \"" \o key \o "\"."

UnknownMessage(key) == "Unknown property \"" \o key \o "\" (not in schema)."

\* collectDiagnostics has returned for the root schema, which resolved to a
\* node, and the document is of the given kind.
Matched(kind) ==
    /\ pc = "collected"
    /\ IsNode(resolved)
    /\ text.kind = kind

\* The keys of the document object's members that have a value, other than
\* "" and $schema: the keys the matcher processes.
ProcessedKeys ==
    {text.members[i].key : i \in {j \in 1..Len(text.members) :
                                    Has(text.members[j], "val")}} \ {"", SchemaKey}

\* An object schema as C4 has it: type object, or no type and properties or
\* required present.
ObjectSchemaByInference(s) ==
    \/ Includes(ToTypeArray(s), "object")
    \/ (~Has(s, "type") /\ (Has(s, "properties") \/ Has(s, "required")))

\* The diagnostics anchored at the start of the document object.
AtObjectStart ==
    SelectSeq(diagnostics, LAMBDA d : d.range = [start |-> 0, end |-> 1])

\* C4: for an object schema (type object, or inferred from properties or
\* from required) with required set R and a document object with processed
\* keys K, exactly one missing-required diagnostic is emitted for each name
\* of R \ K other than $schema, and none for any other name; R = {a, b}
\* and a document holding only a give one such diagnostic, naming b.
C4_MissingRequiredExact ==
    (Matched("object") /\ ObjectSchemaByInference(resolved)) =>
        LET missing == (RequiredOf(resolved) \ ProcessedKeys) \ {SchemaKey}
            emitted == AtObjectStart
        IN  /\ \A name \in missing :
                  Cardinality({i \in 1..Len(emitted) :
                                 emitted[i] = Warning(0, 1, MissingMessage(name))}) = 1
            /\ \A i \in 1..Len(emitted) :
                  \E name \in missing : emitted[i] = Warning(0, 1, MissingMessage(name))
            /\ (RequiredOf(resolved) = {"a", "b"} /\ ProcessedKeys = {"a"}) =>
                  emitted = <<Warning(0, 1, MissingMessage("b"))>>

\* C5: for every key other than $schema of a document object matched
\* against an object schema, an unknown-property diagnostic naming the key
\* is emitted exactly when showUnknownProperties is enabled, the key is not
\* declared in properties and additionalProperties is no schema node; the
\* example schema against {name:"Ada", size:"M"} with the option enabled
\* yields the one diagnostic, unknown property size.
C5_UnknownPropertyIff ==
    /\ (Matched("object") /\ IsObjectSchema(resolved)
          /\ IsNodeTypeCompatible(root, resolved)) =>
          \A i \in 1..Len(root.children) :
             LET keyNode == root.children[i].children[1]
                 key == keyNode.value
                 flagged == \E j \in 1..Len(diagnostics) :
                               diagnostics[j] =
                                  Warning(keyNode.offset, keyNode.offset + keyNode.length,
                                          UnknownMessage(key))
                 declared == Has(resolved, "properties") /\ Has(resolved.properties, key)
                 schemaForOthers == Has(resolved, "additionalProperties")
                                       /\ Has(resolved.additionalProperties, "node")
             IN  (Len(root.children[i].children) = 2 /\ key \notin {"", SchemaKey}) =>
                    (flagged <=> ( /\ config.showUnknownProperties
                                   /\ ~declared
                                   /\ ~schemaForOthers ))
    /\ ( /\ pc = "collected"
         /\ schema = [type |-> <<"object">>, properties |-> [name |-> TypeString],
                      required |-> <<"name">>,
                      additionalProperties |-> [bool |-> FALSE]]
         /\ text = ObjectText(<<Member("name", StringText("Ada")),
                                Member("size", StringText("M"))>>)
         /\ config.showUnknownProperties )
       => diagnostics = <<Warning(14, 20, UnknownMessage("size"))>>

\* The ranges of the property pairs of the tree whose key is $schema.
RECURSIVE SchemaPairRanges(_)
SchemaPairRanges(node) ==
    IF node.type \in {"object", "array", "property"}
    THEN (IF node.type = "property" /\ node.children[1].value = SchemaKey
          THEN {[start |-> node.offset, end |-> node.offset + node.length]}
          ELSE {})
         \cup UNION {SchemaPairRanges(node.children[i]) : i \in 1..Len(node.children)}
    ELSE {}

\* The document holds a property pair whose key is $schema.
HasSchemaPair == SchemaPairRanges(root) # {}

\* C6: a property pair whose key is $schema causes no unknown-property
\* diagnostic, its value is not type-checked or recursed into (no diagnostic
\* lies within the pair), and a required entry $schema causes no
\* missing-required diagnostic.
C6_SchemaKeySkipped ==
    pc = "collected" =>
        \A i \in 1..Len(diagnostics) :
           /\ diagnostics[i].message # UnknownMessage(SchemaKey)
           /\ diagnostics[i].message # MissingMessage(SchemaKey)
           /\ \A r \in SchemaPairRanges(root) :
                 ~(r.start <= diagnostics[i].range.start
                      /\ diagnostics[i].range.end <= r.end)

C6_Witness ==
    /\ pc = "collected"
    /\ HasSchemaPair
    /\ text.kind = "object"
    /\ \E i \in 1..Len(text.members) : text.members[i].key = SchemaKey
    /\ Has(resolved, "properties") /\ Has(resolved.properties, SchemaKey)
    /\ Has(resolved, "required") /\ SchemaKey \in RequiredOf(resolved)
    /\ Len(diagnostics) > 0

\* The items entry C7 gives the element at index (from 0): the single
\* schema; entry index of the sequence; its last entry beyond its length;
\* nothing (Undefined) when the sequence is empty.
ItemSchemaFor(items, index) ==
    IF Has(items, "one") THEN items.one
    ELSE IF index < Len(items.list) THEN items.list[index + 1]
    ELSE IF Len(items.list) > 0 THEN items.list[Len(items.list)]
    ELSE Undefined

\* Whether a scalar element fits the item schema {type: <one name>}, {} or
\* nothing: a number fits integer only when it is a whole number.
ElementFits(element, item) ==
    \/ IsUndefined(item)
    \/ ~Has(item, "type")
    \/ (item.type = <<"string">> /\ element.kind = "string")
    \/ (item.type = <<"integer">> /\ element.kind = "number" /\ element.value % 10 = 0)

\* The diagnostics C7 expects for the elements from index i (from 1) on.
RECURSIVE ExpectedForElements(_)
ExpectedForElements(i) ==
    IF i > Len(text.elems) THEN <<>>
    ELSE LET item == ItemSchemaFor(resolved.items, i - 1)
             node == root.children[i]
         IN  (IF ElementFits(text.elems[i], item) THEN <<>>
              ELSE <<Warning(node.offset, node.offset + node.length,
                             "Type mismatch: expected " \o item.type[1] \o ".")>>)
             \o ExpectedForElements(i + 1)

FlatArrayCase ==
    /\ Matched("array")
    /\ IsArraySchema(resolved) /\ Has(resolved, "items")
    /\ IsNodeTypeCompatible(root, resolved)
    /\ \A i \in 1..Len(text.elems) : text.elems[i].kind \in {"string", "number"}
    /\ \A index \in 0..Len(text.elems) :
          LET item == ItemSchemaFor(resolved.items, index)
          IN  IsUndefined(item) \/ item \in ItemSchemas

\* C7: element i of a document array is matched against the single items
\* schema, or entry i of the items sequence, or its last entry when i is at
\* or beyond its length, or nothing when the sequence is empty; a number
\* fits integer only when it is whole; {type:array, items:{type:integer}}
\* against [1, 2, "x"] yields one type mismatch, at the "x" element.
C7_ArrayItems ==
    /\ FlatArrayCase => diagnostics = ExpectedForElements(1)
    /\ ( /\ pc = "collected"
         /\ schema = [type |-> <<"array">>, items |-> [one |-> TypeInteger]]
         /\ text = ArrayText(<<NumberText(10), NumberText(20), StringText("x")>>) )
       => diagnostics = <<Warning(5, 8, "Type mismatch: expected integer.")>>

C7_Witness ==
    /\ FlatArrayCase
    /\ Has(resolved.items, "list") /\ Len(resolved.items.list) = 2
    /\ Len(text.elems) = 3
    /\ text.elems[3] = NumberText(15)
    /\ resolved.items.list[2] = TypeInteger
    /\ Len(diagnostics) = 2

Unconstrained(s) ==
    /\ ~Has(s, "type") /\ ~Has(s, "properties")
    /\ ~Has(s, "required") /\ ~Has(s, "items")

\* C8 as stated: a schema node that lacks type, properties, required and
\* items, matched against any document node, emits no type-mismatch
\* diagnostic.
C8_NodeWithoutTypeNeverMismatches ==
    (pc = "collected" /\ Unconstrained(schema)) =>
        \A i \in 1..Len(diagnostics) :
           diagnostics[i] # CreateTypeMismatchDiagnostic(root, resolved)

\* C8, amended: a schema node whose resolved node lacks type, properties,
\* required and items, matched against any document node, emits no
\* diagnostic at all, hence no type-mismatch diagnostic.
C8_ResolvedWithoutTypeNeverMismatches ==
    (pc = "collected" /\ IsNode(resolved) /\ Unconstrained(resolved)) =>
        diagnostics = <<>>

C8_Witness ==
    /\ pc = "collected"
    /\ IsNode(resolved) /\ Unconstrained(resolved)
    /\ Has(resolved, "additionalProperties") /\ ~resolved.additionalProperties.bool
    /\ config.showUnknownProperties
    /\ text.kind = "object" /\ Len(text.members) > 2
    /\ diagnostics = <<>>

\* The names joined by separator.
Joined(names, separator) ==
    CASE Len(names) = 1 -> names[1]
      [] Len(names) = 2 -> names[1] \o separator \o names[2]
      [] Len(names) = 3 -> names[1] \o separator \o names[2] \o separator \o names[3]

\* The keys of all members of the JSON value t.
RECURSIVE KeysOf(_)
KeysOf(t) ==
    IF t.kind = "object"
    THEN UNION {{t.members[i].key} \cup (IF Has(t.members[i], "val")
                                         THEN KeysOf(t.members[i].val) ELSE {}) :
                  i \in 1..Len(t.members)}
    ELSE IF t.kind = "array"
    THEN UNION {KeysOf(t.elems[i]) : i \in 1..Len(t.elems)}
    ELSE {}

\* The schema nodes the matcher can hold a document node against.
MatchedNodes == SchemaNodes(schema) \cup (IF IsNode(resolved) THEN {resolved} ELSE {})

\* The messages of the three kinds, the type names joined by separator.
Messages(separator) ==
    {UnknownMessage(key) : key \in KeysOf(text)}
    \cup {MissingMessage(key) : key \in UNION {RequiredOf(s) : s \in MatchedNodes}}
    \cup {"Type mismatch: expected "
             \o Joined(GetSchemaTypeCandidates(s), separator) \o "." :
            s \in {n \in MatchedNodes : Len(GetSchemaTypeCandidates(n)) > 0}}

MessagesExact(separator) ==
    pc = "collected" =>
        /\ \A i \in 1..Len(diagnostics) :
              diagnostics[i].message \in Messages(separator)
        /\ (IsNode(resolved) /\ ~IsNodeTypeCompatible(root, resolved)) =>
              diagnostics =
                 <<Warning(0, root.length,
                           "Type mismatch: expected "
                              \o Joined(GetSchemaTypeCandidates(resolved), separator)
                              \o ".")>>

\* C9 as stated: the type-mismatch message is 'Type mismatch: expected ',
\* the expected type names joined by the single character |, then '.'; the
\* other two messages are 'Unknown property "<key>" (not in schema).' and
\* 'Missing required property "<key>".'.
C9_NamesJoinedByBar == MessagesExact("|")

\* C9, amended: as stated, the expected type names being joined by ' | '
\* (space, vertical bar, space).
C9_NamesJoinedBySpacedBar ==
    /\ MessagesExact(" | ")
    /\ ( /\ pc = "collected"
         /\ schema = [type |-> <<"boolean", "array", "integer">>]
         /\ text = StringText("x") )
       => diagnostics =
             <<Warning(0, 3, "Type mismatch: expected boolean | array | integer.")>>

C9_Witness ==
    /\ pc = "collected"
    /\ schema = [type |-> <<"boolean", "array", "integer">>]
    /\ text = StringText("x")
    /\ Len(diagnostics) = 1

\* s has no $ref and no non-empty allOf, oneOf or anyOf.
Concrete(s) ==
    /\ ~Has(s, "ref")
    /\ \A keyword \in {"allOf", "oneOf", "anyOf"} :
          ~(Has(s, keyword) /\ Len(s[keyword]) > 0)

\* The chain from s ($ref to its target, oneOf and anyOf to entry 0) comes
\* to a $ref whose target it has already visited; visited holds the
\* pointers followed so far.
RECURSIVE ChainRevisits(_, _)
ChainRevisits(s, visited) ==
    IF Has(s, "ref")
    THEN IF ~s.ref.startsWithHash THEN FALSE
         ELSE IF IsUndefined(ResolvePointer(schema, s.ref)) THEN FALSE
         ELSE IF s.ref.parts \in visited THEN TRUE
         ELSE ChainRevisits(ResolvePointer(schema, s.ref), visited \cup {s.ref.parts})
    ELSE IF Has(s, "allOf") /\ Len(s.allOf) > 0 THEN FALSE
    ELSE IF Has(s, "oneOf") /\ Len(s.oneOf) > 0 THEN ChainRevisits(s.oneOf[1], visited)
    ELSE IF Has(s, "anyOf") /\ Len(s.anyOf) > 0 THEN ChainRevisits(s.anyOf[1], visited)
    ELSE FALSE

\* C11 as stated: whenever resolveSchemaNode returns a node, the node is
\* concrete: it has no $ref and no non-empty allOf, oneOf or anyOf.
C11_ResolvedIsConcrete ==
    (Returned /\ IsNode(resolved)) => Concrete(resolved)

\* C11, amended: whenever resolveSchemaNode returns a node and the chain of
\* $ref targets it followed did not come back to a target already visited,
\* the node is concrete.  (When it did, the cycle guard returns that target
\* as it is, with its $ref, oneOf or anyOf.)
C11_ResolvedIsConcreteUnlessCyclic ==
    (Returned /\ IsNode(resolved) /\ ~ChainRevisits(target, {})) => Concrete(resolved)

C11_Witness ==
    /\ pc = "resolved"
    /\ target = RefX
    /\ schema.definitions = [x |-> RefY, y |-> [anyOf |-> <<TypeNumber, RefX>>]]
    /\ ~ChainRevisits(target, {})
    /\ resolved = TypeNumber

\* C10: resolveSchemaNode returns, with a node or undefined, for every node
\* of every root schema, and so collectDiagnostics returns: the stack is
\* never exhausted, also when a $ref reaches itself again through an allOf,
\* oneOf or anyOf branch.
C10_ResolveTerminates == pc # "threw"

\* C12: for one document, under any interleaving of open / change / save /
\* close events and the validation passes they start, the published
\* diagnostics are never those of a pass that outlived the close event
\* (a closed document has none), and once every pass has finished on an
\* open document they are the ones computed from its latest text.
C12_PublishedFromLatestText ==
    /\ ~open => diagnostics = <<>>
    /\ (open /\ passes = <<>>) =>
          diagnostics = CollectDiagnostics(ParseTree(text), schema, config).diagnostics

====
